---- MODULE Spec2Model ----
(***************************************************************************)
(* Model of the roblox-proxy request handler.  The repository holds two    *)
(* variants of the server: src/unnamed/part_000 (user agent                *)
(* "roblox-proxy/1.2": three attempts with jittered waits, caches every    *)
(* 2xx GET) and src/server.js (user agent "roblox-proxy/1.0": one retry    *)
(* after 150 ms, caches only status 200).  The variable `file` says which  *)
(* of the two is running; everything else is the state of one process:     *)
(* the LRU cache, the clock, the handlers in progress and the request     *)
(* whose response has just been written.                                   *)
(*                                                                         *)
(* A handler runs synchronously from the arrival of the request to its     *)
(* first await, so each action is one such stretch of code between two     *)
(* awaits.  Requests are those the rate limiter admits, and they carry no  *)
(* conditional headers (If-None-Match); helmet and compression never       *)
(* answer a request and are left out.  res.status, res.setHeader and       *)
(* res.send throw only where the model says so (an undefined status).      *)
(*                                                                         *)
(* The upstream response is undici's ResponseData, which carries           *)
(* statusCode.  part_000 reads resp.statusCode; server.js reads            *)
(* resp.status, which ResponseData does not have: what server.js reads is  *)
(* undefined (NoStatus), whatever upstream answered.                       *)
(***************************************************************************)
EXTENDS Integers, Sequences, FiniteSets, Bags, TLC

VARIABLES file, cache, now, req, total, done, lru

vars == <<file, cache, now, req, total, done, lru>>

None == "<none>"

(* ----------------------------- bounds ---------------------------------- *)
\* handlers that can be in progress at once
MaxSlots == 2
\* requests received in one run
MaxTotal == 3
\* clock ticks in one run
MaxTicks == 2
\* capacity of the small cache in the runs of cache operations (LruSpec)
CacheCap == 2
\* operations in one run of cache operations (LruSpec)
MaxOps == 4

(* ------------------------ program constants ---------------------------- *)
PROXY_KEY == "change-me"
CACHE_MAX == 1000
CACHE_TTL == 30000
\* one tick of the clock, in ms
TickMs == CACHE_TTL
JITTER == 150
RETRY_WAIT == 150

Files == {"part_000", "server.js"}

\* ALLOWED (part_000) / ALLOWED_PREFIXES (server.js): the same two rules
ALLOWED ==
  << [mount |-> "/catalog", target |-> "https://catalog.roblox.com"],
     [mount |-> "/games",   target |-> "https://games.roblox.com"] >>

(* ------------------------------ inputs --------------------------------- *)
Methods == {"GET", "HEAD", "POST"}

Paths == {"/healthz", "/catalog/v1", "/games/v1", "/CATALOG/v1", "/catalog", "/other"}

Queries == {"", "?x=1"}

\* the x-proxy-key header: absent, the secret, another value
Keys == {None, PROXY_KEY, "wrong"}

request(method, path, query, key) ==
  [method |-> method, path |-> path, query |-> query, key |-> key]

\* every request over the inputs above
AllRequests == [method : Methods, path : Paths, query : Queries, key : Keys]

\* the requests that reach the cache and upstream: GET on three URLs, HEAD on one of them
Forwarded ==
  { request("GET",  "/catalog/v1", "",     PROXY_KEY),
    request("GET",  "/catalog/v1", "?x=1", PROXY_KEY),
    request("GET",  "/games/v1",   "",     PROXY_KEY),
    request("HEAD", "/catalog/v1", "",     PROXY_KEY) }

\* the requests that arrive in a run: the forwarded ones, and one or two
\* that end in each of the other branches of the handler
Requests ==
  Forwarded \cup
  { request("GET",  "/healthz",    "",     None),
    request("GET",  "/catalog/v1", "",     None),
    request("HEAD", "/games/v1",   "?x=1", "wrong"),
    request("POST", "/healthz",    "",     "wrong"),
    request("POST", "/games/v1",   "",     None),
    request("POST", "/catalog/v1", "",     PROXY_KEY),
    request("GET",  "/CATALOG/v1", "",     PROXY_KEY),
    request("GET",  "/catalog",    "",     PROXY_KEY),
    request("GET",  "/other",      "",     PROXY_KEY) }

(* --------------------------- strings ----------------------------------- *)
UpperChars == "ABCDEFGHIJKLMNOPQRSTUVWXYZ"
LowerChars == "abcdefghijklmnopqrstuvwxyz"

CharAt(s, i) == SubSeq(s, i, i)

LowerChar(c) ==
  IF \E i \in 1..Len(UpperChars) : CharAt(UpperChars, i) = c
  THEN CharAt(LowerChars, CHOOSE i \in 1..Len(UpperChars) : CharAt(UpperChars, i) = c)
  ELSE c

RECURSIVE ToLower(_)
ToLower(s) == IF Len(s) = 0 THEN "" ELSE LowerChar(CharAt(s, 1)) \o ToLower(SubSeq(s, 2, Len(s)))

\* the lower-case forms of the paths of the model, computed once
lowered == [p \in Paths |-> ToLower(p)]

\* the path as a case-insensitive route sees it
lower(path) == IF path \in Paths THEN lowered[path] ELSE ToLower(path)

\* String.prototype.startsWith
startsWith(s, p) == Len(s) >= Len(p) /\ SubSeq(s, 1, Len(p)) = p

\* String.prototype.slice(n), n >= 0
slice(s, n) == IF n >= Len(s) THEN "" ELSE SubSeq(s, n + 1, Len(s))

(* ------------------------- express routing ----------------------------- *)
\* (mutant) the health route registered with app.all: any method
healthzAnyMethod(method, path) == lower(path) \in {"/healthz", "/healthz/"}

\* app.get("/healthz"): case-insensitive, optional trailing slash; a GET
\* route also serves HEAD
healthzRoute(method, path) ==
  /\ method \in {"GET", "HEAD"}
  /\ lower(path) \in {"/healthz", "/healthz/"}

\* app.all(["/catalog/*", "/games/*"]): case-insensitive, any method
proxyRoute(path) ==
  \E m \in {"/catalog/", "/games/"} : startsWith(lower(path), m)

\* (mutant) the auth middleware without its exemption of the health path
authorizedNoHealth(path, key) == key = PROXY_KEY

\* the auth middleware lets the request through
authorized(path, key) == path = "/healthz" \/ key = PROXY_KEY

\* (mutant) the method check with POST let through
allowedMethodOrPost(method) == method \in {"GET", "HEAD", "POST"}

\* ["GET", "HEAD"].includes(req.method)
allowedMethod(method) == method \in {"GET", "HEAD"}

\* (mutant) the rule with the longest mount that prefixes the path
findLongest(rules, path) ==
  IF \E i \in 1..Len(rules) : startsWith(path, rules[i].mount)
  THEN CHOOSE i \in 1..Len(rules) :
         /\ startsWith(path, rules[i].mount)
         /\ \A j \in 1..Len(rules) :
              startsWith(path, rules[j].mount) /\ j # i
              => Len(rules[j].mount) < Len(rules[i].mount)
  ELSE 0

\* Array.prototype.find over a list of rules: index of the first rule whose
\* mount prefixes the path, 0 if none
findFirst(rules, path) ==
  IF \E i \in 1..Len(rules) : startsWith(path, rules[i].mount)
  THEN CHOOSE i \in 1..Len(rules) :
         /\ startsWith(path, rules[i].mount)
         /\ \A j \in 1..(i - 1) : ~startsWith(path, rules[j].mount)
  ELSE 0

\* the body of mapTarget over a list of rules; query is "" or starts with "?"
mapTargetIn(rules, path, query) ==
  IF findFirst(rules, path) = 0 THEN None
  ELSE rules[findFirst(rules, path)].target
         \o slice(path, Len(rules[findFirst(rules, path)].mount)) \o query

\* ALLOWED.find(a => req.path.startsWith(a.mount))
findRule(path) == findFirst(ALLOWED, path)

\* mapTarget (part_000) / resolveTarget (server.js)
mapTarget(path, query) == mapTargetIn(ALLOWED, path, query)

\* String.prototype.indexOf("?") + 1: the place of the first "?", 0 if none
RECURSIVE questionMark(_, _)
questionMark(url, i) ==
  IF i > Len(url) THEN 0
  ELSE IF CharAt(url, i) = "?" THEN i
  ELSE questionMark(url, i + 1)

\* req.path: the request url up to its query string
pathOf(url) ==
  IF questionMark(url, 1) = 0 THEN url ELSE SubSeq(url, 1, questionMark(url, 1) - 1)

\* req.url.includes("?") ? req.url.slice(req.url.indexOf("?")) : ""
searchOf(url) ==
  IF questionMark(url, 1) = 0 THEN "" ELSE slice(url, questionMark(url, 1) - 1)

\* mapTarget(req) of a request with the given url, over a list of rules
resolveIn(rules, url) == mapTargetIn(rules, pathOf(url), searchOf(url))

\* (mutant) the cache key without the query string of the target
makeKeyNoQuery(method, target) == method \o ":" \o pathOf(target)

\* const cacheKey = req.method + ":" + target
makeKey(method, target) == method \o ":" \o target

\* the routing of the paths of the model, computed once
routed ==
  [p \in Paths |->
     [health |-> [m \in Methods |-> healthzRoute(m, p)],
      proxy |-> proxyRoute(p),
      target |-> [q \in Queries |-> mapTarget(p, q)]]]

\* healthzRoute, proxyRoute and mapTarget of a request r
toHealthz(r) ==
  IF r.path \in Paths /\ r.method \in Methods THEN routed[r.path].health[r.method]
  ELSE healthzRoute(r.method, r.path)
toProxy(r) == IF r.path \in Paths THEN routed[r.path].proxy ELSE proxyRoute(r.path)
targetOf(r) ==
  IF r.path \in Paths /\ r.query \in Queries THEN routed[r.path].target[r.query]
  ELSE mapTarget(r.path, r.query)

\* the four headers the handler sets itself; none of them for res.status(n).send(text)
NoHeaders == [ct |-> None, acao |-> None, acah |-> None, cc |-> None]

\* an undefined status
NoStatus == 0

\* no upstream response, no cache entry
NoResp == [statusCode |-> NoStatus, status |-> NoStatus, ct |-> None, body |-> None]
NoValue == [status |-> NoStatus, headers |-> NoHeaders, body |-> None]

(* ----------------------------- LRUCache -------------------------------- *)
\* new LRUCache({ max, ttl }): a sequence of entries, least recently used
\* first; an entry is [key, value, start], start the time it was set

indexOf(c, k) ==
  IF \E i \in 1..Len(c) : c[i].key = k
  THEN CHOOSE i \in 1..Len(c) : c[i].key = k
  ELSE 0

remove(c, i) == SubSeq(c, 1, i - 1) \o SubSeq(c, i + 1, Len(c))

\* an entry is stale once more than ttl has passed since it was set
isStale(e, t) == t - e.start > CACHE_TTL

\* cache.get(k): the value, or NoValue (undefined) for an absent or a stale entry
getValue(c, k, t) ==
  IF indexOf(c, k) = 0 \/ isStale(c[indexOf(c, k)], t) THEN NoValue
  ELSE c[indexOf(c, k)].value

\* cache.get(k): the cache afterwards: a stale entry is deleted, a live one
\* becomes the most recently used and keeps its start
getCache(c, k, t) ==
  IF indexOf(c, k) = 0 THEN c
  ELSE IF isStale(c[indexOf(c, k)], t) THEN remove(c, indexOf(c, k))
  ELSE Append(remove(c, indexOf(c, k)), c[indexOf(c, k)])

\* (mutant) the most recently used entry dropped from a full cache
evictNewest(max, c) == IF Len(c) >= max THEN SubSeq(c, 1, Len(c) - 1) ELSE c

\* a cache of capacity max with its least recently used entry dropped when
\* it is full
evictMax(max, c) == IF Len(c) >= max THEN Tail(c) ELSE c

\* set(k, v) on a cache of capacity max: the entry becomes the most recently
\* used, its start is t; a new key evicts the least recently used entry of a
\* full cache
setCacheMax(max, c, k, v, t) ==
  IF indexOf(c, k) # 0
  THEN Append(remove(c, indexOf(c, k)), [key |-> k, value |-> v, start |-> t])
  ELSE Append(evictMax(max, c), [key |-> k, value |-> v, start |-> t])

\* the cache of the program: new LRUCache({ max: 1000, ttl: 30_000 })
evict(c) == evictMax(CACHE_MAX, c)

\* cache.set(k, v)
setCache(c, k, v, t) == setCacheMax(CACHE_MAX, c, k, v, t)

\* what upstream can answer to a call to the url `target`: status code,
\* content-type header (None: absent, "": present and empty), body.  The document of a url is the
\* url itself, so that the documents of two urls differ
UpstreamResponses(target) ==
  { [statusCode |-> 200, ct |-> "text/plain", body |-> target],
    [statusCode |-> 204, ct |-> "",           body |-> ""],
    [statusCode |-> 403, ct |-> None,         body |-> "Forbidden"] }

\* the response object urequest resolves with for the answer u: undici's
\* ResponseData has statusCode, headers and body, and no status property
responseObject(u) ==
  [statusCode |-> u.statusCode, status |-> NoStatus, ct |-> u.ct, body |-> u.body]

\* the status an attempt reads: resp.statusCode (part_000), resp.status (server.js)
statusRead(f, resp) == IF f = "part_000" THEN resp.statusCode ELSE resp.status

\* Math.floor(Math.random() * JITTER) for the three waits: draws at the two
\* ends of 0..JITTER-1
JitterDraws == { <<0, JITTER - 1, 0>>, <<JITTER - 1, 0, JITTER - 1>> }

(* ----------------------------- responses ------------------------------- *)

\* res.status(status).send(body)
sendText(status, body) == [status |-> status, headers |-> NoHeaders, body |-> body]

\* the headers object an attempt builds from the upstream content-type
\* (ct || default: an absent and an empty content-type both get the default)
translate(ct) ==
  [ct |-> IF ct = None \/ ct = "" THEN "application/json; charset=utf-8" ELSE ct,
   acao |-> "*", acah |-> "*", cc |-> "public, max-age=30"]

\* resp.body.text(): upstream sends no body in answer to HEAD
bodyText(method, r) == IF method = "HEAD" THEN "" ELSE r.body

\* the cache condition of attempt (part_000)
cacheable2xx(method, status) == status >= 200 /\ status < 300 /\ method = "GET"

\* the cache condition of forward (server.js)
cacheable200(method, status) == method = "GET" /\ status = 200

\* (mutant) every 2xx response stored, whatever the method
cacheableAnyMethod(f, method, status) == status >= 200 /\ status < 300

cacheable(f, method, status) ==
  IF f = "part_000" THEN cacheable2xx(method, status) ELSE cacheable200(method, status)

\* (mutant) a fourth wait, and so a fourth attempt
jitteredWaitsFour(j) == << 0 + j[1], 200 + j[2], 400 + j[3], 800 + j[3] >>

\* part_000: const waits = [0, 200, 400].map(ms => ms + jitter)
jitteredWaits(j) == << 0 + j[1], 200 + j[2], 400 + j[3] >>

\* server.js: forward at once, then one retry after RETRY_WAIT
retryWaits == << 0, RETRY_WAIT >>

waitsOf(f, j) == IF f = "part_000" THEN jitteredWaits(j) ELSE retryWaits

(* --------------------------- request state ----------------------------- *)
\* pc: "idle" no request; "sleep" in a backoff setTimeout; "call" awaiting
\* urequest; "body" awaiting resp.body.text(); "done" response written.
\* cached: what cache.get returned; hdrs: the headers set on res; i: index
\* of the current attempt;
\* calls: upstream calls started; failed: attempts that threw; sets:
\* cache.set calls made; slept: the waits slept; resp: the upstream response
\* being read; got: the upstream responses whose body was read in full,
\* each with the index of its attempt; err: cause of the failure that ended
\* the request; via: the branch that wrote the response; out: the responses
\* written.
Idle ==
  [pc |-> "idle", method |-> None, path |-> None, query |-> None,
   key |-> None, target |-> None, cached |-> NoValue, hdrs |-> NoHeaders,
   waits |-> <<>>, i |-> 0,
   calls |-> 0, failed |-> 0, sets |-> 0, slept |-> <<>>, resp |-> NoResp,
   got |-> <<>>, err |-> None, via |-> None, out |-> <<>>]

\* a request whose handling wrote `response` in branch `via`
answered(r, via, response) ==
  [r EXCEPT !.pc = "done", !.via = via, !.out = Append(r.out, response)]

\* iteration i of the retry loop: sleep waits[i] when it is not 0, else call upstream
startIteration(r, i) ==
  IF r.waits[i + 1] # 0
  THEN [r EXCEPT !.pc = "sleep", !.i = i, !.slept = Append(r.slept, r.waits[i + 1])]
  ELSE [r EXCEPT !.pc = "call", !.i = i, !.calls = r.calls + 1]

\* an attempt threw: the next iteration, or 502 after the last; the headers
\* an attempt has set stay on res.  (resp is kept, for the record, when the
\* last attempt threw after upstream had answered in full.)
afterFailure(r, cause) ==
  IF r.i + 1 < Len(r.waits)
  THEN startIteration([r EXCEPT !.failed = r.failed + 1, !.resp = NoResp], r.i + 1)
  ELSE answered([r EXCEPT !.failed = r.failed + 1,
                          !.resp = IF cause = "send" THEN r.resp ELSE NoResp,
                          !.err = cause],
                "exhausted", [status |-> 502, headers |-> r.hdrs, body |-> "Upstream error"])

\* (mutant) the cached body sent without the cached status
fromCacheStatus200(v) == [status |-> 200, headers |-> v.headers, body |-> v.body]

\* the response written from a cache entry's value
fromCache(v) == [status |-> v.status, headers |-> v.headers, body |-> v.body]

\* the proxy handler of file f up to its first await; c is the cache, t the time
proxyHandler(f, r, j, c, t) ==
  IF ~allowedMethod(r.method)
  THEN answered(r, "method", sendText(405, "Method Not Allowed"))
  ELSE IF targetOf(r) = None
  THEN answered(r, "route", sendText(404, "Not allowed"))
  ELSE LET target == targetOf(r)
           cached == IF r.method = "GET" THEN getValue(c, makeKey(r.method, target), t) ELSE NoValue
       IN IF cached # NoValue
          THEN answered([r EXCEPT !.target = target, !.cached = cached,
                                  !.hdrs = cached.headers],
                        "cache", fromCache(cached))
          ELSE startIteration([r EXCEPT !.target = target, !.waits = waitsOf(f, j)], 0)

\* the middleware chain: healthz route, auth, proxy route, fallback
handle(f, r, j, c, t) ==
  IF toHealthz(r) THEN answered(r, "health", sendText(200, "ok"))
  ELSE IF ~authorized(r.path, r.key) THEN answered(r, "auth", sendText(403, "Forbidden"))
  ELSE IF toProxy(r) THEN proxyHandler(f, r, j, c, t)
  ELSE answered(r, "fallback", sendText(404, "Not found"))

\* (mutant) the cache lookup made ahead of the auth middleware
looksUpUnguarded(r) ==
  /\ ~toHealthz(r) /\ toProxy(r)
  /\ r.method = "GET" /\ targetOf(r) # None

\* the request reaches the cache lookup of the proxy handler
looksUp(r) ==
  /\ ~toHealthz(r) /\ authorized(r.path, r.key) /\ toProxy(r)
  /\ r.method = "GET" /\ targetOf(r) # None

\* (mutant) a hit stores the entry again, which restarts its ttl
cacheAfterRestore(r, c, t) ==
  IF ~looksUp(r) THEN c
  ELSE IF getValue(c, makeKey(r.method, targetOf(r)), t) = NoValue
  THEN getCache(c, makeKey(r.method, targetOf(r)), t)
  ELSE setCache(c, makeKey(r.method, targetOf(r)),
                getValue(c, makeKey(r.method, targetOf(r)), t), t)

\* the cache after the handling of r up to its first await
cacheAfter(r, c, t) ==
  IF looksUp(r) THEN getCache(c, makeKey(r.method, targetOf(r)), t) ELSE c

\* the handler state of request q as it arrives
arriving(q) ==
  [Idle EXCEPT !.method = q.method, !.path = q.path, !.query = q.query, !.key = q.key]

(* ------------------------------ actions -------------------------------- *)
\* `req` is the bag of the handlers in progress, each at an await.  `done`
\* holds the request whose response has just been written, until the
\* response is flushed to the socket; the model flushes it before anything
\* else happens.

\* lru is the cache object of the runs of cache operations (LruSpec); the
\* program does not use it
LruOff ==
  [max |-> 0, c |-> <<>>, t |-> 0, used |-> <<>>, prev |-> <<>>, op |-> None, key |-> 0, ops |-> 0]

Init ==
  /\ file \in Files
  /\ cache = <<>>
  /\ now = 0
  /\ req = EmptyBag
  /\ total = 0
  /\ done = Idle
  /\ lru = LruOff

InProgress == BagToSet(req)

\* handler r has run to r2: its next await, or its response
settle(r, r2) ==
  IF r2.pc = "done"
  THEN req' = req (-) SetToBag({r}) /\ done' = r2
  ELSE req' = (req (-) SetToBag({r})) (+) SetToBag({r2}) /\ done' = done

\* request q arrives and is handled up to its first await or its response
Arrive(q, j) ==
  /\ done.pc = "idle"
  /\ BagCardinality(req) < MaxSlots
  /\ total < MaxTotal
  /\ total' = total + 1
  /\ LET r2 == handle(file, arriving(q), j, cache, now)
     IN IF r2.pc = "done"
        THEN req' = req /\ done' = r2
        ELSE req' = req (+) SetToBag({r2}) /\ done' = done
  /\ cache' = cacheAfter(arriving(q), cache, now)
  /\ UNCHANGED <<file, now, lru>>

\* the backoff timer fires: the attempt starts
Wake(r) ==
  /\ done.pc = "idle"
  /\ r.pc = "sleep"
  /\ settle(r, [r EXCEPT !.pc = "call", !.calls = r.calls + 1])
  /\ UNCHANGED <<file, cache, now, total, lru>>

\* upstream answers u: urequest resolves with the response object; the
\* timeout is cleared
Head_(r, u) ==
  /\ done.pc = "idle"
  /\ r.pc = "call"
  /\ settle(r, [r EXCEPT !.pc = "body", !.resp = responseObject(u)])
  /\ UNCHANGED <<file, cache, now, total, lru>>

\* urequest rejects: the timeout aborted it, or the network failed
CallFail(r, cause) ==
  /\ done.pc = "idle"
  /\ r.pc = "call"
  /\ settle(r, afterFailure(r, cause))
  /\ UNCHANGED <<file, cache, now, total, lru>>

\* what an attempt does once the body is read: the cache afterwards
storeResult(c, f, r, t) ==
  IF cacheable(f, r.method, statusRead(f, r.resp))
  THEN setCache(c, makeKey(r.method, r.target),
                [status |-> statusRead(f, r.resp), headers |-> translate(r.resp.ct),
                 body |-> bodyText(r.method, r.resp)], t)
  ELSE c

\* the headers res carries when an attempt threw on an undefined status
headersAtThrow(r) == {r.hdrs, translate(r.resp.ct)}

\* (mutant) the attempt's response is written and the handler falls
\* through to the 502 after the loop
sendResultFallsThrough(f, r) ==
  answered(answered(r, "upstream",
                    [status |-> statusRead(f, r.resp), headers |-> translate(r.resp.ct),
                     body |-> bodyText(r.method, r.resp)]),
           "exhausted", sendText(502, "Upstream error"))

\* what an attempt does once the body is read: the request afterwards.
\* An undefined status makes the attempt throw: in res.send, after the
\* headers were set (Express 4), or in res.status, before them (Express 5)
sendResult(f, r) ==
  IF statusRead(f, r.resp) = NoStatus
  THEN afterFailure(r, "send")
  ELSE answered([r EXCEPT !.hdrs = translate(r.resp.ct),
                          !.sets = IF cacheable(f, r.method, statusRead(f, r.resp))
                                   THEN r.sets + 1 ELSE r.sets],
                "upstream",
                [status |-> statusRead(f, r.resp), headers |-> translate(r.resp.ct),
                 body |-> bodyText(r.method, r.resp)])

\* the body is read: headers, cache.set when cacheable, response
BodyDone(r) ==
  /\ done.pc = "idle"
  /\ r.pc = "body"
  /\ cache' = storeResult(cache, file, r, now)
  /\ \E h \in IF statusRead(file, r.resp) = NoStatus THEN headersAtThrow(r) ELSE {r.hdrs} :
       settle(r, sendResult(file, [r EXCEPT !.hdrs = h,
                                            !.got = Append(r.got, [i |-> r.i, resp |-> r.resp])]))
  /\ UNCHANGED <<file, now, total, lru>>

\* resp.body.text() rejects
BodyFail(r) ==
  /\ done.pc = "idle"
  /\ r.pc = "body"
  /\ settle(r, afterFailure(r, "read"))
  /\ UNCHANGED <<file, cache, now, total, lru>>

\* the response written is flushed
Flush ==
  /\ done.pc = "done"
  /\ done' = Idle
  /\ UNCHANGED <<file, cache, now, req, total, lru>>

\* time passes
Tick ==
  /\ done.pc = "idle"
  /\ now < MaxTicks * TickMs
  /\ now' = now + TickMs
  /\ UNCHANGED <<file, cache, req, total, done, lru>>

Next ==
  \/ \E q \in Requests, j \in JitterDraws : Arrive(q, j)
  \/ \E r \in InProgress : Wake(r)
  \/ \E r \in InProgress : \E u \in UpstreamResponses(r.target) : Head_(r, u)
  \/ \E r \in InProgress, cause \in {"timeout", "network"} : CallFail(r, cause)
  \/ \E r \in InProgress : BodyDone(r)
  \/ \E r \in InProgress : BodyFail(r)
  \/ Flush
  \/ Tick

Spec == Init /\ [][Next]_vars

\* the abort timer of an attempt is pending: setTimeout before urequest,
\* clearTimeout as soon as urequest has resolved or rejected
timerArmed(r) == r.pc = "call"

\* the abort timer of an attempt in flight fires
Timeout == \E r \in InProgress : timerArmed(r) /\ CallFail(r, "timeout")

\* what the event loop guarantees: a timer that is pending fires, a
\* response that was written is flushed.  Upstream owes nothing: it may
\* never answer, and never finish a body
LiveSpec ==
  /\ Spec
  /\ WF_vars(\E r \in InProgress : Wake(r))
  /\ WF_vars(Timeout)
  /\ WF_vars(Flush)

(* ------------------------------ claims --------------------------------- *)
\* the answer of file f to each request of AllRequests on an empty cache,
\* up to its first await
frontAnswers ==
  [f \in Files |-> [q \in AllRequests |-> handle(f, arriving(q), <<0, 0, 0>>, <<>>, 0)]]

\* the path lies under one of the mounts /catalog/ and /games/
underMount(path) == startsWith(path, "/catalog/") \/ startsWith(path, "/games/")

\* the request carries the configured secret
hasSecret(r) == r.key = PROXY_KEY

\* r was answered, with exactly the response resp
answeredWith(r, resp) == r.pc = "done" /\ r.out = <<resp>>

\* r was answered with the given status
answeredStatus(r, status) == r.pc = "done" /\ Len(r.out) = 1 /\ r.out[1].status = status

\* the guard's answers to every request of AllRequests, in both files
C1_AllRequests ==
  \A f \in Files, q \in AllRequests :
    /\ underMount(q.path) =>
         (answeredWith(frontAnswers[f][q], sendText(403, "Forbidden")) <=> ~hasSecret(q))
    /\ q.path = "/healthz" => ~answeredStatus(frontAnswers[f][q], 403)

\* r was answered with the given status and body, whatever the headers
answeredStatusBody(r, status, body) ==
  answeredStatus(r, status) /\ r.out[1].body = body

\* C1, as stated: a request under a mount is answered with status 403 and
\* body "Forbidden" if and only if its x-proxy-key header is missing or
\* differs from the secret; a request for /healthz is never answered 403.
C1_Original ==
  done.pc = "done" =>
    /\ underMount(done.path) =>
         (answeredStatusBody(done, 403, "Forbidden") <=> ~hasSecret(done))
    /\ done.path = "/healthz" => ~answeredStatus(done, 403)

\* C1: a request under a mount is refused by the access guard (answered 403
\* "Forbidden" by res.status(403).send, with none of the proxy's headers and
\* before any upstream call) if and only if its x-proxy-key header is
\* missing or differs from the secret: a request in progress carries the
\* secret and has no answer yet, and a 403 that an authorized request gets
\* is the upstream's own, passed through with the proxy's headers after an
\* upstream call.  A request for /healthz is never answered 403, whatever
\* the header.
C1_ForbiddenIffBadKey ==
  /\ done.pc = "done" =>
       /\ underMount(done.path) =>
            /\ done.via = "auth" <=> ~hasSecret(done)
            /\ answeredWith(done, sendText(403, "Forbidden")) <=> ~hasSecret(done)
            /\ done.via = "auth" => done.calls = 0 /\ done.got = <<>>
            /\ (hasSecret(done) /\ answeredStatus(done, 403))
                 => /\ done.via = "upstream" /\ done.calls >= 1
                    /\ done.resp.statusCode = 403
                    /\ done.out[1].headers # NoHeaders
       /\ done.path = "/healthz" => ~answeredStatus(done, 403)
  /\ \A r \in InProgress : underMount(r.path) /\ hasSecret(r) /\ r.out = <<>>
  /\ C1_AllRequests

\* C1 witness: a request under a mount without the secret has been answered 403
C1_Witness ==
  /\ answeredWith(done, sendText(403, "Forbidden"))
  /\ underMount(done.path) /\ done.key = None

\* the request is a GET or HEAD that the health route answers
isHealthCheck(r) == r.method \in {"GET", "HEAD"} /\ lower(r.path) \in {"/healthz", "/healthz/"}

\* no AllowRule prefixes the path, or the path is on no mount route
unconfigured(path) ==
  \/ \A i \in 1..Len(ALLOWED) : ~startsWith(path, ALLOWED[i].mount)
  \/ ~(startsWith(lower(path), "/catalog/") \/ startsWith(lower(path), "/games/"))

\* C2, as stated: every request whose path matches no configured mount is answered 404
C2_Original ==
  done.pc = "done" /\ unconfigured(done.path) => answeredStatus(done, 404)

\* the request passes the access guard, is no GET or HEAD health check, and
\* its path is on no mount route, or on one but under no AllowRule with a
\* method in {GET, HEAD}
is404(r) ==
  /\ (r.path = "/healthz" \/ hasSecret(r)) /\ ~isHealthCheck(r)
  /\ \/ ~(startsWith(lower(r.path), "/catalog/") \/ startsWith(lower(r.path), "/games/"))
     \/ /\ \A i \in 1..Len(ALLOWED) : ~startsWith(r.path, ALLOWED[i].mount)
        /\ r.method \in {"GET", "HEAD"}

\* the 404 answers to every request of AllRequests, in both files
C2_AllRequests ==
  \A f \in Files, q \in AllRequests : is404(q) => answeredStatus(frontAnswers[f][q], 404)

\* C2, amended: a request that passes the access guard, is not a GET or HEAD
\* health check and whose path is on no mount route is answered 404 whatever
\* its method; a path on a mount route that no AllowRule prefixes is answered
\* 404 for GET and HEAD
C2_Unconfigured404 ==
  /\ done.pc = "done" /\ is404(done) => answeredStatus(done, 404)
  /\ \A r \in InProgress : ~is404(r)
  /\ C2_AllRequests

\* C2 witness: 404 from the fallback and 404 from route resolution
C2_Witness ==
  \/ answeredWith(done, sendText(404, "Not found")) /\ done.path = "/other"
  \/ answeredWith(done, sendText(404, "Not allowed")) /\ done.path = "/CATALOG/v1"

\* C3, as stated: every request on a mount with a method outside {GET, HEAD} is answered 405
C3_Original ==
  done.pc = "done" /\ underMount(done.path) /\ done.method \notin {"GET", "HEAD"}
    => answeredStatus(done, 405)

\* the request is on a mount, carries the secret and is neither GET nor HEAD
is405(r) == underMount(r.path) /\ hasSecret(r) /\ r.method \notin {"GET", "HEAD"}

\* the 405 answers to every request of AllRequests, in both files
C3_AllRequests ==
  \A f \in Files, q \in AllRequests :
    is405(q) => answeredWith(frontAnswers[f][q], sendText(405, "Method Not Allowed"))

\* C3, amended: every request on a mount that carries the secret and whose
\* method is outside {GET, HEAD} is answered 405 "Method Not Allowed"
C3_MethodNotAllowed ==
  /\ done.pc = "done" /\ is405(done) => answeredWith(done, sendText(405, "Method Not Allowed"))
  /\ \A r \in InProgress : ~is405(r)
  /\ C3_AllRequests

\* C3 witness: a POST on a mount with the secret has been answered 405
C3_Witness ==
  /\ answeredWith(done, sendText(405, "Method Not Allowed"))
  /\ done.method = "POST" /\ underMount(done.path) /\ hasSecret(done)

(* helpers of the claims about the cache and the retry loop *)

\* the response an attempt writes for the upstream response u of request r
passedThrough(r, u) ==
  [status |-> u.statusCode,
   headers |-> [ct |-> IF u.ct \in {None, ""} THEN "application/json; charset=utf-8" ELSE u.ct,
                acao |-> "*", acah |-> "*", cc |-> "public, max-age=30"],
   body |-> IF r.method = "HEAD" THEN "" ELSE u.body]

is2xx(status) == status >= 200 /\ status < 300

\* the cache key of an authorized GET under a mount
getKey(r) == "GET:" \o mapTarget(r.path, r.query)

\* c holds an entry under k
hasEntry(c, k) == \E i \in 1..Len(c) : c[i].key = k

\* the entry of c under k
entryOf(c, k) == c[CHOOSE i \in 1..Len(c) : c[i].key = k]

\* c holds an entry under k that was set no more than the TTL before t
liveEntry(c, k, t) == hasEntry(c, k) /\ t - entryOf(c, k).start <= CACHE_TTL

\* this step is the arrival of a request
arrives == total' = total + 1

\* the request that arrives in this step, as the step leaves it
newcomer ==
  IF done'.pc = "done" THEN done'
  ELSE CHOOSE r \in BagToSet(req') : CopiesIn(r, req') > CopiesIn(r, req)

\* the arriving request is a GET that reaches the cache lookup
getLookup(a) == a.method = "GET" /\ hasSecret(a) /\ underMount(a.path)

\* the handlers in progress and the one just answered
Handlers == InProgress \cup (IF done.pc = "done" THEN {done} ELSE {})

\* the first upstream attempt of r returned a response with a 2xx status:
\* upstream answered attempt 0 and the body was read in full
firstReturned2xx(r) ==
  r.got # <<>> /\ r.got[1].i = 0 /\ is2xx(r.got[1].resp.statusCode)

\* C4, as stated: an authorized GET that missed the cache and whose first
\* attempt returned a 2xx status made exactly one upstream call, was answered
\* with the upstream status and body, and the cache then holds, under its key,
\* that status, the translated headers and that body.
C4_Original ==
  \A r \in Handlers :
    (r.method = "GET" /\ firstReturned2xx(r))
    => /\ r.pc = "done" /\ r.calls = 1
       /\ r.out = <<passedThrough(r, r.got[1].resp)>>
       /\ r.out[1].body = r.got[1].resp.body
       /\ hasEntry(cache, getKey(r))
       /\ entryOf(cache, getKey(r)).value = passedThrough(r, r.got[1].resp)

\* C5: an authorized GET that arrives while the cache holds a live entry
\* under its key is answered at once with the status, headers and body of
\* that entry and makes no upstream call, however many such GETs came before.
C5_HitServesEntry ==
  [][ arrives /\ getLookup(newcomer) /\ liveEntry(cache, getKey(newcomer), now)
      => /\ newcomer.pc = "done"
         /\ newcomer.calls = 0
         /\ newcomer.out = << entryOf(cache, getKey(newcomer)).value >>
         /\ req' = req ]_vars

\* C5 witness: a GET answered from an entry set one tick earlier, as the
\* third request of the run
C5_Witness ==
  /\ done.pc = "done" /\ done.via = "cache" /\ done.calls = 0 /\ total = 3
  /\ Len(cache) = 1 /\ cache[1].key = getKey(done)
  /\ cache[1].start < now
  /\ done.out = << cache[1].value >>

\* C6: an entry keeps the start it was set with (a read never changes it, a
\* set makes it the current time); a GET that arrives more than the TTL after
\* its entry was set is not answered from the cache, the entry is dropped and
\* the request goes upstream; a request whose first upstream call succeeds
\* has made exactly one call.
C6_ExpiryIgnoresReads ==
  [][ /\ \A i \in 1..Len(cache') :
           \/ cache'[i].start = now
           \/ /\ hasEntry(cache, cache'[i].key)
              /\ entryOf(cache, cache'[i].key).start = cache'[i].start
      /\ arrives => \A i \in 1..Len(cache') :
                      /\ hasEntry(cache, cache'[i].key)
                      /\ entryOf(cache, cache'[i].key) = cache'[i]
      /\ (/\ arrives /\ getLookup(newcomer) /\ hasEntry(cache, getKey(newcomer))
          /\ now - entryOf(cache, getKey(newcomer)).start > CACHE_TTL)
         => /\ newcomer.pc \in {"sleep", "call"}
            /\ newcomer.out = <<>>
            /\ ~hasEntry(cache', getKey(newcomer))
      /\ (done'.pc = "done" /\ done'.via = "upstream" /\ done'.failed = 0)
         => done'.calls = 1 ]_vars

\* C6 witness: two ticks into the run, the third request, a GET, has been
\* answered from upstream after one call and its entry is the only one
C6_Witness ==
  /\ now = 2 * TickMs /\ total = 3 /\ req = EmptyBag
  /\ done.pc = "done" /\ done.via = "upstream" /\ done.method = "GET"
  /\ done.calls = 1 /\ done.failed = 0
  /\ Len(cache) = 1 /\ cache[1].key = getKey(done) /\ cache[1].start = now

\* the attempts of r that returned a response with a 2xx status, by their
\* place among the responses r has read in full
returned2xx(r) == { n \in 1..Len(r.got) : is2xx(r.got[n].resp.statusCode) }

\* C7, as stated: every entry of the cache is under a GET key and has a 2xx
\* status, and every GET attempt that returned a 2xx status stored an entry.
C7_Original ==
  /\ \A i \in 1..Len(cache) :
       startsWith(cache[i].key, "GET:") /\ is2xx(cache[i].value.status)
  /\ \A r \in Handlers : r.method # "GET" => r.sets = 0
  /\ \A r \in Handlers :
       r.method = "GET" => r.sets = Cardinality(returned2xx(r))
  /\ (done.pc = "done" /\ done.method = "GET" /\ returned2xx(done) # {})
     => /\ hasEntry(cache, getKey(done))
        /\ is2xx(done.got[Len(done.got)].resp.statusCode)
             => entryOf(cache, getKey(done)).value
                  = passedThrough(done, done.got[Len(done.got)].resp)

\* C8: a handler makes at most 3 upstream calls, one at a time: a call is in
\* flight only when all the calls before it failed, and the first call that
\* succeeds gives the response and ends the handling.
C8_AtMostThreeAttempts ==
  \A r \in Handlers :
    /\ r.calls <= 3 /\ r.failed <= r.calls
    /\ r.pc \in {"call", "body"} => r.calls = r.failed + 1
    /\ r.pc = "sleep" => r.calls = r.failed
    /\ r.pc = "done" =>
         /\ r.via = "upstream" =>
              r.calls = r.failed + 1 /\ r.out = <<passedThrough(r, r.resp)>>
         /\ r.via = "exhausted" => r.calls = r.failed
         /\ r.via \notin {"upstream", "exhausted"} => r.calls = 0 /\ r.failed = 0

\* C8 witness: a request answered by its third attempt after two failures
C8_Witness ==
  /\ done.pc = "done" /\ done.via = "upstream"
  /\ done.calls = 3 /\ done.failed = 2
  /\ done.out = <<passedThrough(done, done.resp)>>

\* C9, as stated: a request whose 3 attempts all failed is answered 502
\* "Upstream error" whatever the cause and has stored no entry, and a 502 of
\* the proxy is written only after 3 failed attempts.
C9_Original ==
  /\ \A r \in Handlers : r.failed = 3 => answeredStatus(r, 502)
  /\ done.pc = "done" /\ done.via = "exhausted"
     => /\ done.failed = 3
        /\ answeredStatus(done, 502) /\ done.out[1].body = "Upstream error"
        /\ done.sets = 0

\* the steps a handler in progress has left at most: three per iteration
measure(r) ==
  3 * (Len(r.waits) - r.i)
    - (CASE r.pc = "sleep" -> 0 [] r.pc = "call" -> 1 [] r.pc = "body" -> 2 [] OTHER -> 3)

\* the handlers that took this step, and what they became
stepped == { r \in BagToSet(req) : CopiesIn(r, req') < CopiesIn(r, req) }
became == { r \in BagToSet(req') : CopiesIn(r, req') > CopiesIn(r, req) }

\* C10: a handler in progress has written nothing; each of its steps either
\* brings it nearer to its end or ends it with its one response; an answered
\* request has written exactly one response, that of the branch that ended it.
C10_ExactlyOneResponse ==
  [][ /\ \A r \in BagToSet(req') :
           r.out = <<>> /\ r.pc \in {"sleep", "call", "body"} /\ measure(r) > 0
      /\ \A r \in stepped :
           \/ \E r2 \in became : measure(r2) < measure(r)
           \/ became = {} /\ done'.pc = "done" /\ done.pc = "idle"
      /\ done'.pc \in {"idle", "done"}
      /\ done'.pc = "done" =>
           /\ Len(done'.out) = 1
           /\ done'.via \in {"health", "auth", "method", "route", "fallback",
                             "cache", "upstream", "exhausted"}
           /\ done'.out[1].status =
                (CASE done'.via = "health" -> 200
                   [] done'.via = "auth" -> 403
                   [] done'.via = "method" -> 405
                   [] done'.via \in {"route", "fallback"} -> 404
                   [] done'.via = "cache" -> done'.cached.status
                   [] done'.via = "upstream" -> done'.resp.statusCode
                   [] done'.via = "exhausted" -> 502)
      /\ (done.pc = "done" /\ done' # done) => done'.pc = "idle" ]_vars

\* C10 witness: a request whose last attempt failed while the body was read
\* has been answered once, with 502
C10_Witness ==
  /\ done.pc = "done" /\ done.via = "exhausted" /\ done.err = "read"
  /\ done.failed = 3
  /\ done.out = <<sendText(502, "Upstream error")>>

\* C11, as stated: an attempt that upstream answered with a non-2xx status
\* is a successful one: the request is answered with that status and body and
\* its translated headers by the attempt that got them, it has stored
\* nothing, no request ends in 502 after such an answer, and no entry of the
\* cache has a non-2xx status.
C11_Original ==
  /\ \A r \in Handlers :
       (r.pc = "done" /\ r.via = "upstream" /\ ~is2xx(r.resp.statusCode))
       => /\ r.out = <<passedThrough(r, r.resp)>>
          /\ r.calls = r.failed + 1
          /\ r.sets = 0
  /\ ~(/\ done.pc = "done" /\ done.via = "exhausted" /\ done.err = "send"
       /\ ~is2xx(done.resp.statusCode))
  /\ \A i \in 1..Len(cache) : is2xx(cache[i].value.status)

(* C12: the cache object by itself.  LruSpec runs get and set on a cache   *)
(* of a small capacity, from empty, and on the cache of the program with   *)
(* all but one of its CACHE_MAX entries held, while time passes.  Keys are *)
(* numbers.  Beside the cache, lru keeps the time t, for every key the     *)
(* number of the last operation that used it (a set, or a get that found   *)
(* it live), the cache as it was before the last step, and that step.      *)

\* a cache that holds the keys 1..n, set in that order
filled(n) == [i \in 1..n |-> [key |-> i, value |-> NoValue, start |-> 0]]

LruSetups ==
  { [max |-> CacheCap, c |-> <<>>, t |-> 0, used |-> [k \in 1..(CacheCap + 1) |-> 0],
     prev |-> <<>>, op |-> None, key |-> 0, ops |-> 0],
    [max |-> CACHE_MAX, c |-> filled(CACHE_MAX - 1), t |-> 0,
     used |-> [k \in 1..(CACHE_MAX + 1) |-> IF k < CACHE_MAX THEN k ELSE 0],
     prev |-> filled(CACHE_MAX - 1), op |-> None, key |-> 0, ops |-> 0] }

\* the keys the operations of a run use
LruKeys(l) == IF l.max = CACHE_MAX THEN {1, CACHE_MAX, CACHE_MAX + 1} ELSE 1..(CacheCap + 1)

keysOf(c) == { c[i].key : i \in 1..Len(c) }

LruInit ==
  /\ file \in Files
  /\ cache = <<>>
  /\ now = 0
  /\ req = EmptyBag
  /\ total = 0
  /\ done = Idle
  /\ lru \in LruSetups

\* the number of the next operation
stamp(l) == (IF l.max = CACHE_MAX THEN CACHE_MAX ELSE 0) + l.ops + 1

\* c holds an entry under k that is not stale at the time t
liveKey(c, k, t) == indexOf(c, k) # 0 /\ ~isStale(c[indexOf(c, k)], t)

\* cache.get(k) at the time lru.t: a stale entry is deleted, and that is no
\* use of it
LruGet(k) ==
  /\ lru.ops < MaxOps
  /\ lru' = [lru EXCEPT !.c = getCache(lru.c, k, lru.t),
                        !.used = IF liveKey(lru.c, k, lru.t)
                                 THEN [lru.used EXCEPT ![k] = stamp(lru)] ELSE lru.used,
                        !.prev = lru.c, !.op = "get", !.key = k,
                        !.ops = lru.ops + 1]
  /\ UNCHANGED <<file, cache, now, req, total, done>>

\* cache.set(k, v) at the time lru.t
LruSet(k) ==
  /\ lru.ops < MaxOps
  /\ lru' = [lru EXCEPT !.c = setCacheMax(lru.max, lru.c, k, NoValue, lru.t),
                        !.used = [lru.used EXCEPT ![k] = stamp(lru)],
                        !.prev = lru.c, !.op = "set", !.key = k,
                        !.ops = lru.ops + 1]
  /\ UNCHANGED <<file, cache, now, req, total, done>>

\* time passes: the cache does nothing by itself (no ttlAutopurge)
LruTick ==
  /\ lru.t < MaxTicks * TickMs
  /\ lru' = [lru EXCEPT !.t = lru.t + TickMs, !.prev = lru.c, !.op = "tick", !.key = 0]
  /\ UNCHANGED <<file, cache, now, req, total, done>>

LruNext ==
  \/ \E k \in LruKeys(lru) : LruGet(k)
  \/ \E k \in LruKeys(lru) : LruSet(k)
  \/ LruTick

LruSpec == LruInit /\ [][LruNext]_vars

\* the keys held before the last step, and those it removed
before(l) == keysOf(l.prev)
gone(l) == before(l) \ keysOf(l.c)

\* key g was held before the last step and more than the ttl had passed
\* since it was set
wasStale(l, g) == g \in before(l) /\ l.t - l.prev[indexOf(l.prev, g)].start > CACHE_TTL

\* the last step evicted g: it was the set of a new key on a full cache, it
\* removed g alone, and every key that was kept had been used later than g
evicted(l, g) ==
  /\ l.op = "set" /\ l.key \notin before(l)
  /\ Cardinality(before(l)) = l.max
  /\ gone(l) = {g}
  /\ \A k \in before(l) \ {g} : l.used[g] < l.used[k]

\* the last step deleted g as stale: it was a get of g itself, after its ttl
expired(l, g) == l.op = "get" /\ l.key = g /\ gone(l) = {g} /\ wasStale(l, g)

\* C12: the cache never holds more than its capacity, one entry per key, in
\* the order of their last use (a set, or a get that found the key live).
\* Storing a new key in a full cache evicts exactly one entry, the least
\* recently used: every key that is kept was used later than the one evicted.
\* An entry leaves the cache in no other way but one, which is no eviction:
\* a get of that very key more than the ttl after it was set deletes it.  A
\* get of a live key, a set of a held key, a set of a new key below capacity
\* and the passing of time remove nothing.
C12_LruEviction ==
  /\ Len(lru.c) <= lru.max
  /\ Cardinality(keysOf(lru.c)) = Len(lru.c)
  /\ \A i \in 1..(Len(lru.c) - 1) : lru.used[lru.c[i].key] < lru.used[lru.c[i + 1].key]
  /\ keysOf(lru.c) = (before(lru) \ gone(lru)) \cup (IF lru.op = "set" THEN {lru.key} ELSE {})
  /\ \A g \in gone(lru) : evicted(lru, g) \/ expired(lru, g)
  /\ (lru.op = "set" /\ lru.key \notin before(lru) /\ Cardinality(before(lru)) = lru.max)
     => \E g \in gone(lru) : evicted(lru, g)
  /\ (lru.op = "set" /\ lru.key \notin before(lru) /\ Cardinality(before(lru)) < lru.max)
     => gone(lru) = {}
  /\ (lru.op = "set" /\ lru.key \in before(lru)) => gone(lru) = {}
  /\ (lru.op = "get" /\ ~wasStale(lru, lru.key)) => gone(lru) = {}
  /\ (lru.op = "get" /\ wasStale(lru, lru.key)) => gone(lru) = {lru.key}
  /\ lru.op = "tick" => lru.c = lru.prev

\* C12 witness: on the cache of the program, one entry short of full, a new
\* key was set (nothing removed), key 1 was read, and a second new key has
\* been set: the cache is full, key 2 is gone and key 1, the oldest by its
\* set but read since, is kept
C12_Witness ==
  /\ lru.max = CACHE_MAX /\ Len(lru.c) = CACHE_MAX /\ lru.ops = 3
  /\ lru.op = "set" /\ lru.key = CACHE_MAX + 1
  /\ gone(lru) = {2}
  /\ lru.c[CACHE_MAX - 1].key = 1 /\ lru.c[CACHE_MAX].key = CACHE_MAX + 1
  /\ lru.c[1].key = 3

(* C13: route resolution as a function of the request url *)
\* request urls: under each mount, a mount alone, a mount as the prefix of
\* another word, paths outside the mounts, queries with "?", "&", "/" in them
Urls ==
  { "/catalog/v1", "/catalog/v1?x=1", "/games/list?sort=name&limit=10",
    "/catalog", "/catalog?x=1", "/catalog/", "/games/v1?a=1?b=/catalog/2",
    "/catalogs/v1", "/CATALOG/v1", "/other", "/other?next=/catalog/v1",
    "/v1/catalog/x", "/games/v1?", "/" }

\* two rules of which the first prefixes the second, in both orders
Nested ==
  << [mount |-> "/a",   target |-> "https://first.example"],
     [mount |-> "/a/b", target |-> "https://second.example"] >>
NestedReversed == << Nested[2], Nested[1] >>

RuleLists == {ALLOWED, Nested, NestedReversed}
NestedUrls == { "/a/b/c?x=1", "/a/c", "/a", "/b/a", "/a/b" }

\* the rules of a list that prefix the path, by their place in the list
prefixing(rules, path) ==
  { i \in 1..Len(rules) :
      Len(path) >= Len(rules[i].mount)
      /\ \A n \in 1..Len(rules[i].mount) : CharAt(path, n) = CharAt(rules[i].mount, n) }

\* s is t with the sequence of characters p in front
isPrefixed(s, p, t) ==
  /\ Len(s) = Len(p) + Len(t)
  /\ \A n \in 1..Len(p) : CharAt(s, n) = CharAt(p, n)
  /\ \A n \in 1..Len(t) : CharAt(s, Len(p) + n) = CharAt(t, n)

\* the resolution of every url over every list of rules
C13_AllUrls ==
  /\ \A rules \in RuleLists, url \in Urls \cup NestedUrls :
       LET path == pathOf(url)
           hits == prefixing(rules, path)
           first == CHOOSE i \in hits : \A j \in hits : i <= j
       IN /\ isPrefixed(url, path, searchOf(url))
          /\ searchOf(url) # "" => CharAt(searchOf(url), 1) = "?"
          /\ \A n \in 1..Len(path) : CharAt(path, n) # "?"
          /\ hits = {} => resolveIn(rules, url) = None
          /\ hits # {} =>
               \E rest \in { slice(path, n) : n \in 0..Len(path) } :
                 /\ isPrefixed(path, rules[first].mount, rest)
                 /\ resolveIn(rules, url) = rules[first].target \o rest \o searchOf(url)
  /\ resolveIn(ALLOWED, "/games/list?sort=name&limit=10")
       = "https://games.roblox.com/list?sort=name&limit=10"
  /\ resolveIn(ALLOWED, "/catalog") = "https://catalog.roblox.com"
  /\ resolveIn(ALLOWED, "/catalog?x=1") = "https://catalog.roblox.com?x=1"
  /\ resolveIn(ALLOWED, "/games/v1?a=1?b=/catalog/2")
       = "https://games.roblox.com/v1?a=1?b=/catalog/2"
  /\ resolveIn(ALLOWED, "/other?next=/catalog/v1") = None
  /\ resolveIn(Nested, "/a/b/c?x=1") = "https://first.example/b/c?x=1"
  /\ resolveIn(NestedReversed, "/a/b/c?x=1") = "https://second.example/c?x=1"
  /\ \A q \in AllRequests : targetOf(q) = resolveIn(ALLOWED, q.path \o q.query)

\* C13: route resolution takes the first rule, in the order of the list,
\* whose mount is a literal prefix of the path (not the longest), and gives
\* its upstream base, then the path without that prefix, then the url from
\* its first "?" on, as it is; the mount alone gives the base and nothing
\* more; a path no rule prefixes gives none.  A handler that goes upstream
\* has a target that is the resolution of its path and query and begins with
\* the base of a rule; a handler without a target has made no call.
C13_FirstMatchResolution ==
  /\ C13_AllUrls
  /\ \A r \in Handlers :
       /\ r.target # None =>
            /\ r.target = targetOf(r)
            /\ \E i \in 1..Len(ALLOWED) : startsWith(r.target, ALLOWED[i].target)
       /\ (r.calls > 0 \/ r.pc \in {"sleep", "call", "body"}) => r.target # None

\* C13 witness: a request with a query string has been answered from the
\* upstream url that carries that query string
C13_Witness ==
  /\ done.pc = "done" /\ done.via = "upstream" /\ done.calls = 1
  /\ done.path = "/catalog/v1" /\ done.query = "?x=1"
  /\ done.target = "https://catalog.roblox.com/v1?x=1"

\* the base delays the waits are stated with
baseDelays == <<0, 200, 400>>

\* the waits of part_000 for every jitter of 0..JITTER-1
C14_AllJitters ==
  \A x \in 0..(JITTER - 1), n \in 1..3 :
    /\ jitteredWaits(<<x, x, x>>)[n] = baseDelays[n] + x
    /\ jitteredWaits(<<x, 0, JITTER - 1>>)[1] = x

\* C14, as stated: the waits of a request that goes upstream are three, the
\* wait before attempt n is its base delay of 0, 200 or 400 ms plus a jitter
\* in [0, 150), for every jitter that can be drawn, and a request answered by
\* its third attempt has waited at least 600 ms and less than 1050 ms in all.
C14_Original ==
  /\ C14_AllJitters
  /\ \A r \in Handlers :
       r.waits # <<>> =>
         /\ Len(r.waits) = 3
         /\ \A n \in 1..Len(r.waits) :
              baseDelays[n] <= r.waits[n] /\ r.waits[n] < baseDelays[n] + 150
         /\ (r.pc = "done" /\ r.via = "upstream" /\ r.failed = 2)
            => /\ 600 <= r.waits[1] + r.waits[2] + r.waits[3]
               /\ r.waits[1] + r.waits[2] + r.waits[3] < 1050

\* C15, as stated: a handler sleeps only between two attempts: it has slept
\* no more often than attempts of it have failed, and a request answered by
\* its first attempt has not slept.
C15_Original ==
  \A r \in Handlers :
    /\ r.pc = "sleep" => r.failed >= 1 /\ r.calls >= 1
    /\ Len(r.slept) <= r.failed
    /\ (r.pc = "done" /\ r.via = "upstream" /\ r.failed = 0) => r.slept = <<>>

\* C16, as stated: timers being fair, every request in progress reaches its
\* response, whatever upstream does: over and over no handler is in progress
C16_Original == []<>(req = EmptyBag)

\* C17, as stated: every handler that missed the cache makes its own
\* upstream calls, whatever other handlers for the same key are doing; a GET
\* whose call returned a 2xx result is answered with that result, and when
\* it has finished the entry under its key is that result (the last store
\* wins); no GET whose call returned a 2xx result is answered otherwise.
C17_Original ==
  /\ \A r \in Handlers : r.pc \in {"call", "body"} => r.calls = r.failed + 1
  /\ (done.pc = "done" /\ done.method = "GET" /\ done.via = "upstream"
      /\ is2xx(done.resp.statusCode))
     => /\ done.out = <<passedThrough(done, done.resp)>>
        /\ hasEntry(cache, getKey(done))
        /\ entryOf(cache, getKey(done)).value = passedThrough(done, done.resp)
        /\ entryOf(cache, getKey(done)).start = now
  /\ ~(/\ done.pc = "done" /\ done.method = "GET" /\ done.via = "exhausted"
       /\ done.err = "send" /\ is2xx(done.resp.statusCode))

(* C18: terminal client errors *)
\* the branches that end a request in 403, 405 or 404 of the proxy itself
ClientErrors == {"auth", "method", "route", "fallback"}

\* caches that hold an entry under every GET key of the model, in either
\* order of the first two, set at time 0
FullCaches ==
  { << [key |-> "GET:" \o a, value |-> NoValue, start |-> 0],
       [key |-> "GET:" \o b, value |-> NoValue, start |-> 0] >> :
      a \in {"https://catalog.roblox.com/v1", "https://games.roblox.com/v1?x=1"},
      b \in {"https://games.roblox.com/v1", "https://catalog.roblox.com/v1?x=1"} }

\* every request of AllRequests that ends in a client error, on a cache with
\* live or stale entries, in both files: no call, no sleep, the same cache
C18_AllRequests ==
  \A f \in Files, q \in AllRequests, c \in FullCaches, t \in {CACHE_TTL, CACHE_TTL + 1} :
    LET r == handle(f, arriving(q), <<1, 1, 1>>, c, t)
    IN (r.pc = "done" /\ r.via \in ClientErrors)
       => /\ r.calls = 0 /\ r.slept = <<>>
          /\ cacheAfter(arriving(q), c, t) = c
          /\ r.out[1].status \in {403, 404, 405}

\* C18: a request that ends in 403 of the access guard, 405 of the method
\* check or 404 of route resolution or the fallback is answered in the step
\* in which it arrives, has made no upstream call and slept no backoff, and
\* leaves the cache as it was: the same entries with the same start times in
\* the same order.
C18_ClientErrorsLeaveCache ==
  [][ /\ (done'.pc = "done" /\ done'.via \in ClientErrors)
         => /\ done'.calls = 0 /\ done'.failed = 0 /\ done'.slept = <<>>
            /\ done'.out[1].status \in {403, 404, 405}
            /\ done.pc = "idle" => arrives /\ cache' = cache /\ req' = req
      /\ C18_AllRequests ]_vars

\* C18 witness: a GET without the secret, for a url whose entry is in the
\* cache and stale, has been answered 403 and the entry is still there
C18_Witness ==
  /\ done.pc = "done" /\ done.via = "auth" /\ done.method = "GET"
  /\ done.path = "/catalog/v1" /\ done.query = ""
  /\ hasEntry(cache, "GET:https://catalog.roblox.com/v1")
  /\ now - entryOf(cache, "GET:https://catalog.roblox.com/v1").start > CACHE_TTL

(* C19: what the cache holds *)
\* the urls the GET requests of the model resolve to
GetTargets == { targetOf(q) : q \in { f \in Forwarded : f.method = "GET" } }

\* the cache values that are one 2xx response of upstream to a call to U
responsesOf ==
  [U \in GetTargets |->
     { [status |-> u.statusCode,
        headers |-> [ct |-> IF u.ct \in {None, ""} THEN "application/json; charset=utf-8" ELSE u.ct,
                     acao |-> "*", acah |-> "*", cc |-> "public, max-age=30"],
        body |-> u.body] : u \in { v \in UpstreamResponses(U) : is2xx(v.statusCode) } }]

\* C19: every entry of the cache is under a key "GET:" + U and its value is
\* the status, the translated headers and the body of one 2xx response of
\* upstream to a call to U; an entry is written or replaced only in the step
\* in which a GET handler with target U gets such a response from its own
\* call, and is that response; a request answered from the cache gets such
\* a response of its own url.
C19_EntryIsOneResponse ==
  [][ /\ \A i \in 1..Len(cache') :
           /\ \E U \in GetTargets :
                cache'[i].key = "GET:" \o U /\ cache'[i].value \in responsesOf[U]
           /\ (~hasEntry(cache, cache'[i].key) \/ entryOf(cache, cache'[i].key) # cache'[i])
              => /\ done.pc = "idle" /\ done'.pc = "done" /\ done'.via = "upstream"
                 /\ done'.method = "GET" /\ done'.calls = done'.failed + 1
                 /\ cache'[i].key = "GET:" \o done'.target
                 /\ done'.target = mapTarget(done'.path, done'.query)
                 /\ is2xx(done'.resp.statusCode)
                 /\ \E u \in UpstreamResponses(done'.target) :
                      /\ u.statusCode = done'.resp.statusCode
                      /\ u.ct = done'.resp.ct /\ u.body = done'.resp.body
                 /\ cache'[i].value = passedThrough(done', done'.resp)
      /\ (done'.pc = "done" /\ done'.via = "cache")
         => done'.out[1] \in responsesOf[mapTarget(done'.path, done'.query)] ]_vars

\* C19 witness: the cache holds the entries of two urls that differ in their
\* query string only, each with the document of its own url, and a request
\* for one of them has been answered from the cache
C19_Witness ==
  /\ Len(cache) = 2
  /\ done.pc = "done" /\ done.via = "cache" /\ done.query = "?x=1"
  /\ done.out[1].body = "https://catalog.roblox.com/v1?x=1"
  /\ hasEntry(cache, "GET:https://catalog.roblox.com/v1")
  /\ entryOf(cache, "GET:https://catalog.roblox.com/v1").value.body = "https://catalog.roblox.com/v1"

(* C20: HEAD requests *)
\* an authorized HEAD request on a configured mount
headOnMount(r) == r.method = "HEAD" /\ hasSecret(r) /\ underMount(r.path)

\* a cache whose one entry, live at time 0, is under the GET key of request q
getEntryFor(q) ==
  << [key |-> "GET:" \o targetOf(q),
      value |-> [status |-> 200, headers |-> translate(None), body |-> targetOf(q)],
      start |-> 0] >>

\* every HEAD request of AllRequests on a mount, with the secret, arriving
\* while the GET entry of its url is live: it goes upstream, and the cache
\* is as it was
C20_AllRequests ==
  \A f \in Files, q \in AllRequests, j \in JitterDraws :
    headOnMount(q) =>
      LET r == handle(f, arriving(q), j, getEntryFor(q), 0)
      IN /\ r.pc \in {"sleep", "call"} /\ r.cached = NoValue /\ r.out = <<>>
         /\ r.target = targetOf(q)
         /\ cacheAfter(arriving(q), getEntryFor(q), 0) = getEntryFor(q)

\* C20: an authorized HEAD request on a configured mount is never answered
\* from the cache: it has read no entry, it goes to its retry loop when it
\* arrives, it is answered only by an upstream attempt or after all its
\* attempts failed, having made at least one upstream call, also while a
\* live GET entry of the same url is in the cache; no step of a HEAD
\* request changes the cache, and no entry is under a HEAD key.
C20_HeadBypassesCache ==
  [][ /\ \A r \in BagToSet(req') \cup (IF done'.pc = "done" THEN {done'} ELSE {}) :
           headOnMount(r) =>
             /\ r.cached = NoValue /\ r.sets = 0
             /\ r.pc = "done" => r.via \in {"upstream", "exhausted"} /\ r.calls >= 1
      /\ (arrives /\ headOnMount(newcomer))
         => newcomer.pc \in {"sleep", "call"} /\ cache' = cache
      /\ (done.pc = "idle" /\ done'.pc = "done" /\ done'.method = "HEAD") => cache' = cache
      /\ \A i \in 1..Len(cache') : ~startsWith(cache'[i].key, "HEAD")
      /\ C20_AllRequests ]_vars

\* C20 witness: a HEAD request has been answered 200 by upstream after one
\* call while the live GET entry of its url is in the cache
C20_Witness ==
  /\ done.pc = "done" /\ done.method = "HEAD" /\ done.via = "upstream"
  /\ done.calls = 1 /\ done.resp.statusCode = 200
  /\ liveEntry(cache, "GET:" \o done.target, now)
  /\ done.out[1].body = ""
  /\ entryOf(cache, "GET:" \o done.target).value.body = done.target

====
